---- MODULE Spec2Model ----
(***************************************************************************)
(* Series grouping (scripts/2-series-grouping.js, kept in pipeline.js) and *)
(* advanced series split (scripts/3-advanced-series-split.js) of the anime *)
(* data pipeline, as a state machine over one batch run.                   *)
(*                                                                         *)
(* Record ids are naturals (one representation, an opaque key).  Strings   *)
(* the code builds (titles, slugs, series ids, names) are sequences of     *)
(* one-character or fixed tokens, so that concatenation and slug           *)
(* collisions are computed, not assumed.                                   *)
(***************************************************************************)
EXTENDS Naturals, Sequences, FiniteSets, TLC

VARIABLES
  animeData,          \* the record list, in input order (relations normalized)
  pc,                 \* the stage of the run the process is in
  idx,                \* position of animeData.forEach (grouping main loop)
  series,             \* finalized series groups, in creation order
  processedIds,       \* Set of visited ids
  seriesIds,          \* Set of series ids in use
  animeToSeries,      \* Map id -> seriesId, as a set of <<id, seriesId>>
  edgeCases,          \* {animeInMultipleSeries, orphanedAnime, circularRelations}
  last,               \* what the last loop iteration did (history)
  animeMap,           \* the records advancedSeriesSplit loads, by id
  sIdx,               \* position of the series loop of advancedSeriesSplit
  results,            \* what the last processSeriesData call returned
  splitSeriesResults, \* the AdvancedSplit output being assembled
  inputFile,          \* results/anilist_anime_data_complete.json, as read
  previousRun,        \* the documents the run before this one wrote
  pipeline,           \* runPipeline: stages started and ended, value returned
  disk,               \* the result documents this run has written
  updatedRecords,     \* the records written to results/anime_data_updated.json
  listedIds,          \* getSeriesNameFromOldestAnime: the member ids, as listed
  seriesName,         \* getSeriesNameFromOldestAnime: the name returned
  traversal           \* findAllRelatedIds: the calls in progress for one seed

vars == <<animeData, pc, idx, series, processedIds, seriesIds, animeToSeries,
          edgeCases, last, animeMap, sIdx, results, splitSeriesResults,
          inputFile, previousRun, pipeline, disk, updatedRecords, listedIds,
          seriesName, traversal>>

----------------------------------------------------------------------------
(* Bounds of the model *)

NumRecords == 3        \* records 1..NumRecords, in input order
MaxEdges == 4          \* relation edges in the whole data set (Spec)
MaxRelPerRecord == 2   \* relation edges of one record
MaxSplitEdges == 3     \* relation edges in the whole data set (SplitSpec)
SplitRecords == 2      \* records of the data set (SplitSpec)
MaxRerunEdges == 2     \* relation edges in the whole data set (RerunSpec)
MaxRawEdges == 3       \* relation edges in the whole data set (RawSpec)

RecordIds == 1..NumRecords
DanglingId == NumRecords + 1      \* an edge target that is no input record
TargetIds == 1..DanglingId

StructuralType == "SEQUEL"
SoftTypes == {"CHARACTER", "ADAPTATION", "SPIN_OFF", "OTHER", "PARENT"}
GroupRelTypes == {"SEQUEL", "CHARACTER"}
SplitRelTypes == {StructuralType} \cup SoftTypes

\* Date.now() and Math.floor(Math.random() * 1000), two values of each
Clock == {"t0", "t1"}
Random == {"r0", "r1"}

----------------------------------------------------------------------------
(* Sequences used as insertion-ordered Sets and Arrays *)

Range(s) == {s[i] : i \in 1..Len(s)}

Includes(s, x) == \E i \in 1..Len(s) : s[i] = x

\* Set.add: keeps the insertion order, ignores a member
SetAdd(s, x) == IF Includes(s, x) THEN s ELSE Append(s, x)

RECURSIVE Filter(_, _)
Filter(s, keep) ==
  IF s = <<>> THEN <<>>
  ELSE IF Head(s) \in keep THEN <<Head(s)>> \o Filter(Tail(s), keep)
       ELSE Filter(Tail(s), keep)

RECURSIVE Concat(_)
Concat(ss) == IF ss = <<>> THEN <<>> ELSE Head(ss) \o Concat(Tail(ss))

\* decimal digits of a small number, as a one-token string
Str(n) ==
  CASE n = 0 -> "0" [] n = 1 -> "1" [] n = 2 -> "2" [] n = 3 -> "3"
    [] n = 4 -> "4" [] n = 5 -> "5" [] n = 6 -> "6" [] n = 7 -> "7"
    [] n = 8 -> "8" [] n = 9 -> "9" [] OTHER -> "N"

----------------------------------------------------------------------------
(* Records *)

NoTitle == <<>>          \* a missing (or empty) title: falsy
NoSeriesId == <<>>       \* a record that carries no seriesId
NoDate == [kind |-> "none", t |-> 0]      \* start_date absent
ValidDate(t) == [kind |-> "valid", t |-> t]
InvalidDate == [kind |-> "invalid", t |-> 0]  \* new Date(...) is NaN

Relation(t, ty) == [targetAnimeId |-> t, relationType |-> ty]

Anime(i, t, tr, d, rels) ==
  [id |-> i, title |-> t, title_romaji |-> tr, start_date |-> d,
   relations |-> rels, seriesId |-> NoSeriesId]

\* animeMap[id]
HasAnime(data, i) == \E k \in 1..Len(data) : data[k].id = i

AnimeOf(data, i) == data[CHOOSE k \in 1..Len(data) : data[k].id = i]

----------------------------------------------------------------------------
(* generateSeriesId *)

SlugMaxLen == 30

ToLowerCase(c) == CASE c = "A" -> "a" [] c = "B" -> "b" [] OTHER -> c

AlnumChars == {"a", "b", "0", "1", "2", "3", "4", "5", "6", "7", "8", "9"}

\* .replace(/[^a-z0-9]/g, "_") after .toLowerCase()
ReplaceNonAlnum(t) ==
  [i \in 1..Len(t) |->
     IF ToLowerCase(t[i]) \in AlnumChars THEN ToLowerCase(t[i]) ELSE "_"]

\* .replace(/_+/g, "_")
RECURSIVE CollapseUnderscores(_)
CollapseUnderscores(t) ==
  IF Len(t) < 2 THEN t
  ELSE IF t[1] = "_" /\ t[2] = "_" THEN CollapseUnderscores(Tail(t))
       ELSE <<t[1]>> \o CollapseUnderscores(Tail(t))

\* .replace(/^_|_$/g, "")
TrimUnderscores(t) ==
  LET a == IF t # <<>> /\ Head(t) = "_" THEN Tail(t) ELSE t
  IN IF a # <<>> /\ a[Len(a)] = "_" THEN SubSeq(a, 1, Len(a) - 1) ELSE a

Substring(t, n) == IF Len(t) <= n THEN t ELSE SubSeq(t, 1, n)

Slug(title) ==
  Substring(TrimUnderscores(CollapseUnderscores(ReplaceNonAlnum(title))),
            SlugMaxLen)

\* the while loop: the first of slug, slug_1, slug_2, ... not in existingIds
RECURSIVE AddSuffix(_, _, _, _)
AddSuffix(slug, seriesId, counter, existingIds) ==
  IF seriesId \in existingIds
  THEN AddSuffix(slug, slug \o <<"_", Str(counter)>>, counter + 1, existingIds)
  ELSE seriesId

\* now, rnd: what Date.now() and Math.random() return in this call
GenerateSeriesId(animeDetails, existingIds, now, rnd) ==
  IF animeDetails = <<>> \/ animeDetails[1].title = NoTitle
  THEN <<"series", "_", now, "_", rnd>>
  ELSE AddSuffix(Slug(animeDetails[1].title), Slug(animeDetails[1].title),
                 1, existingIds)

----------------------------------------------------------------------------
(* findAllRelatedIds: the recursive traversal of outgoing relations.       *)
(* st.processedIds is the Set being filled (insertion order),              *)
(* st.relationChains the Map of chains (absent = empty), st.warned the     *)
(* chains logged as circular (logger.warn only).                           *)

\* no call of findAllRelatedIds is in progress
NoTraversal == [seed |-> 0, callStack |-> <<>>, processedIds |-> <<>>]

NewTraversal ==
  [processedIds |-> <<>>,
   relationChains |-> [i \in TargetIds |-> <<>>],
   warned |-> <<>>]

RECURSIVE FindAllRelatedIds(_, _, _)
RECURSIVE VisitRelations(_, _, _, _)
FindAllRelatedIds(animeId, data, st) ==
  IF Includes(st.processedIds, animeId) THEN st
  ELSE LET st1 == [st EXCEPT !.processedIds = Append(@, animeId)]
       IN IF ~HasAnime(data, animeId) THEN st1
          ELSE VisitRelations(animeId, AnimeOf(data, animeId).relations,
                              data, st1)

\* as VisitRelations, but the traversal follows only the first relation
VisitFirstRelationOnly(animeId, rels, data, st) ==
  IF rels = <<>> THEN st
  ELSE LET targetId == Head(rels).targetAnimeId
           currentChain == st.relationChains[animeId]
           st1 == [st EXCEPT !.relationChains[targetId] =
                     Append(currentChain, animeId)]
       IN IF Includes(st1.processedIds, targetId) THEN st1
          ELSE FindAllRelatedIds(targetId, data, st1)

VisitRelations(animeId, rels, data, st) ==
  IF rels = <<>> THEN st
  ELSE LET targetId == Head(rels).targetAnimeId
           currentChain == st.relationChains[animeId]
           newChain == Append(currentChain, animeId)
           st1 == [st EXCEPT
                     !.warned = IF Includes(currentChain, targetId)
                                THEN Append(@, Append(currentChain, targetId))
                                ELSE @,
                     !.relationChains[targetId] = newChain]
           st2 == IF Includes(st1.processedIds, targetId) THEN st1
                  ELSE FindAllRelatedIds(targetId, data, st1)
       IN VisitRelations(animeId, Tail(rels), data, st2)

\* relatedIds of the main loop: a fresh Set and a fresh chain Map per seed
RelatedIds(anime, data) ==
  FindAllRelatedIds(anime.id, data, NewTraversal).processedIds

----------------------------------------------------------------------------
(* groupAnimeIntoSeries_internal: the pieces of one loop iteration *)

MapHas(m, k) == \E e \in m : e[1] = k

MapGet(m, k) == (CHOOSE e \in m : e[1] = k)[2]

MapSet(m, k, v) == {e \in m : e[1] # k} \cup {<<k, v>>}

OrphanEntry(anime, reason) ==
  [animeId |-> anime.id, title |-> anime.title, reason |-> reason]

\* as ConflictingAnime, but only the seed itself is looked up
ConflictingSeedOnly(relatedIds, a2s) ==
  Filter(relatedIds, {i \in {relatedIds[1]} : MapHas(a2s, i)})

\* Array.from(relatedIds).filter((id) => animeToSeries.has(id))
ConflictingAnime(relatedIds, a2s) ==
  Filter(relatedIds, {i \in Range(relatedIds) : MapHas(a2s, i)})

ProposedNewSeries ==
  [seriesId |-> <<"proposed_new_series">>,
   seriesName |-> <<"Proposed New Series">>]

MultipleSeriesEntry(i, data, a2s) ==
  [animeId |-> i,
   title |-> IF HasAnime(data, i) /\ AnimeOf(data, i).title # NoTitle
             THEN AnimeOf(data, i).title ELSE <<"Unknown">>,
   foundInSeries |->
     <<[seriesId |-> MapGet(a2s, i), seriesName |-> MapGet(a2s, i)],
       ProposedNewSeries>>]

\* Array.from(relatedIds).map((id) => animeMap[id]).filter(Boolean)
AnimeDetails(relatedIds, data) ==
  LET present == Filter(relatedIds, {i \in Range(relatedIds) : HasAnime(data, i)})
  IN [k \in 1..Len(present) |-> AnimeOf(data, present[k])]

\* seriesGroup.relations: every relation of every member record, in order
SeriesRelations(details) ==
  Concat([k \in 1..Len(details) |->
    [j \in 1..Len(details[k].relations) |->
       [sourceAnimeId |-> details[k].id,
        targetAnimeId |-> details[k].relations[j].targetAnimeId,
        relationType |-> details[k].relations[j].relationType,
        direction |-> "forward"]]])

\* seriesGroup.relationTypes: type -> unique "src->tgt" keys, both in
\* insertion order; a sequence of [type, keys]
RECURSIVE RelationTypes(_, _)
RelationTypes(rels, acc) ==
  IF rels = <<>> THEN acc
  ELSE LET r == Head(rels)
           key == <<r.sourceAnimeId, r.targetAnimeId>>
           known == \E k \in 1..Len(acc) : acc[k].type = r.relationType
           acc1 == IF known THEN acc
                   ELSE Append(acc, [type |-> r.relationType, keys |-> <<>>])
           acc2 == [k \in 1..Len(acc1) |->
                      IF acc1[k].type = r.relationType
                      THEN [acc1[k] EXCEPT !.keys = SetAdd(@, key)]
                      ELSE acc1[k]]
       IN RelationTypes(Tail(rels), acc2)

DisplayTitle(anime) ==
  IF anime.title_romaji # NoTitle THEN anime.title_romaji
  ELSE IF anime.title # NoTitle THEN anime.title
  ELSE <<"Unknown Title">>

SeriesGroup(relatedIds, details, seriesId, nSeries) ==
  [seriesId |-> seriesId,
   seriesName |-> IF details # <<>> /\ details[1].title # NoTitle
                  THEN details[1].title
                  ELSE <<"Series ", Str(nSeries + 1)>>,
   animeIds |-> relatedIds,
   animeDetails |-> {[id |-> details[k].id, title |-> DisplayTitle(details[k])]
                       : k \in 1..Len(details)},
   relations |-> SeriesRelations(details),
   relationTypes |-> RelationTypes(SeriesRelations(details), <<>>)]

\* anime.seriesId = seriesId, for every member record (records are shared
\* between animeData and animeMap)
AttachSeriesId(data, details, seriesId) ==
  [k \in 1..Len(data) |->
     IF \E j \in 1..Len(details) : details[j].id = data[k].id
     THEN [data[k] EXCEPT !.seriesId = seriesId] ELSE data[k]]

RECURSIVE SetAll(_, _, _)
SetAll(m, details, seriesId) ==
  IF details = <<>> THEN m
  ELSE SetAll(MapSet(m, Head(details).id, seriesId), Tail(details), seriesId)

----------------------------------------------------------------------------
(* class Graph: adjacencyList is a Map, so vertices keep insertion order   *)

NewGraph == [vertices |-> <<>>, adjacencyList |-> [v \in TargetIds |-> <<>>]]

AddVertex(g, v) == [g EXCEPT !.vertices = SetAdd(@, v)]

\* as AddEdge, but the edge is stored at its source only
AddEdgeDirected(g, source, target) ==
  LET g1 == AddVertex(AddVertex(g, source), target)
  IN [g1 EXCEPT !.adjacencyList[source] = Append(@, target)]

AddEdge(g, source, target) ==
  LET g1 == AddVertex(AddVertex(g, source), target)
      g2 == [g1 EXCEPT !.adjacencyList[source] = Append(@, target)]
  IN [g2 EXCEPT !.adjacencyList[target] = Append(@, source)]

\* dfs(start, visited): the while loop over the stack; group and visited
RECURSIVE Dfs(_, _, _, _)
\* as Dfs, but only the first unvisited neighbour is pushed
DfsFirstNeighbour(g, stack, visited, group) ==
  IF stack = <<>> THEN [group |-> group, visited |-> visited]
  ELSE LET vertex == stack[Len(stack)]
           rest == SubSeq(stack, 1, Len(stack) - 1)
           unvisited == Filter(g.adjacencyList[vertex],
                               TargetIds \ (visited \cup {vertex}))
       IN IF vertex \in visited THEN Dfs(g, rest, visited, group)
          ELSE Dfs(g,
                   rest \o (IF unvisited = <<>> THEN <<>>
                            ELSE <<Head(unvisited)>>),
                   visited \cup {vertex},
                   Append(group, vertex))

Dfs(g, stack, visited, group) ==
  IF stack = <<>> THEN [group |-> group, visited |-> visited]
  ELSE LET vertex == stack[Len(stack)]
           rest == SubSeq(stack, 1, Len(stack) - 1)
       IN IF vertex \in visited THEN Dfs(g, rest, visited, group)
          ELSE Dfs(g,
                   rest \o Filter(g.adjacencyList[vertex],
                                  TargetIds \ (visited \cup {vertex})),
                   visited \cup {vertex},
                   Append(group, vertex))

RECURSIVE ConnectedGroupsFrom(_, _, _, _)
ConnectedGroupsFrom(g, k, visited, groups) ==
  IF k > Len(g.vertices) THEN groups
  ELSE IF g.vertices[k] \in visited
       THEN ConnectedGroupsFrom(g, k + 1, visited, groups)
       ELSE LET d == Dfs(g, <<g.vertices[k]>>, visited, <<>>)
            IN ConnectedGroupsFrom(g, k + 1, d.visited, Append(groups, d.group))

FindConnectedGroups(g) == ConnectedGroupsFrom(g, 1, {}, <<>>)

----------------------------------------------------------------------------
(* The relation Maps of processSeriesData: id -> Set of ids, both in       *)
(* insertion order                                                         *)

NewRelationMap == [keys |-> <<>>, targets |-> [v \in TargetIds |-> <<>>]]

AddRelation(m, source, target) ==
  LET m1 == [m EXCEPT !.keys = SetAdd(SetAdd(@, source), target)]
      m2 == [m1 EXCEPT !.targets[source] = SetAdd(@, target)]
  IN [m2 EXCEPT !.targets[target] = SetAdd(@, source)]

\* the <<key, target>> entries, in iteration order
MapEntries(m) ==
  Concat([k \in 1..Len(m.keys) |->
    [j \in 1..Len(m.targets[m.keys[k]]) |->
       <<m.keys[k], m.targets[m.keys[k]][j]>>]])

RECURSIVE AddEdges(_, _)
AddEdges(g, entries) ==
  IF entries = <<>> THEN g
  ELSE AddEdges(AddEdge(g, Head(entries)[1], Head(entries)[2]), Tail(entries))

FindConnectedGroupsFromRelations(relationMap) ==
  FindConnectedGroups(AddEdges(NewGraph, MapEntries(relationMap)))

----------------------------------------------------------------------------
(* Sorting: Array.prototype.sort is stable                                 *)

\* insert x after the last element it does not come before
RECURSIVE InsertNumeric(_, _)
InsertNumeric(sorted, x) ==
  IF sorted = <<>> THEN <<x>>
  ELSE IF x < sorted[Len(sorted)]
       THEN Append(InsertNumeric(SubSeq(sorted, 1, Len(sorted) - 1), x),
                   sorted[Len(sorted)])
       ELSE Append(sorted, x)

\* .sort((a, b) => Number(a) - Number(b))
RECURSIVE SortNumeric(_)
SortNumeric(ids) ==
  IF ids = <<>> THEN <<>>
  ELSE InsertNumeric(SortNumeric(SubSeq(ids, 1, Len(ids) - 1)), ids[Len(ids)])

RelationBefore(a, b) ==
  \/ a.sourceAnimeId < b.sourceAnimeId
  \/ a.sourceAnimeId = b.sourceAnimeId /\ a.targetAnimeId < b.targetAnimeId

RECURSIVE InsertRelation(_, _)
InsertRelation(sorted, x) ==
  IF sorted = <<>> THEN <<x>>
  ELSE IF RelationBefore(x, sorted[Len(sorted)])
       THEN Append(InsertRelation(SubSeq(sorted, 1, Len(sorted) - 1), x),
                   sorted[Len(sorted)])
       ELSE Append(sorted, x)

\* .sort by Number(sourceAnimeId), then Number(targetAnimeId)
RECURSIVE SortRelations(_)
SortRelations(rels) ==
  IF rels = <<>> THEN <<>>
  ELSE InsertRelation(SortRelations(SubSeq(rels, 1, Len(rels) - 1)),
                      rels[Len(rels)])

----------------------------------------------------------------------------
(* getSeriesNameFromOldestAnime *)

\* as OlderThan, but the start dates are never read
OlderThanById(a, b, data) == a < b

\* the sort comparator returns a negative number
OlderThan(a, b, data) ==
  IF ~HasAnime(data, a) \/ ~HasAnime(data, b) THEN a < b
  ELSE LET dateA == AnimeOf(data, a).start_date
           dateB == AnimeOf(data, b).start_date
       IN IF dateA.kind = "valid" /\ dateB.kind = "valid"
          THEN dateA.t < dateB.t
          ELSE a < b

RECURSIVE InsertByAge(_, _, _)
InsertByAge(sorted, x, data) ==
  IF sorted = <<>> THEN <<x>>
  ELSE IF OlderThan(x, sorted[Len(sorted)], data)
       THEN Append(InsertByAge(SubSeq(sorted, 1, Len(sorted) - 1), x, data),
                   sorted[Len(sorted)])
       ELSE Append(sorted, x)

RECURSIVE SortByAge(_, _)
SortByAge(ids, data) ==
  IF ids = <<>> THEN <<>>
  ELSE InsertByAge(SortByAge(SubSeq(ids, 1, Len(ids) - 1), data),
                   ids[Len(ids)], data)

GetSeriesNameFromOldestAnime(animeIds, data) ==
  IF animeIds = <<>> THEN <<"Unknown Series">>
  ELSE LET oldestId == SortByAge(animeIds, data)[1]
       IN IF ~HasAnime(data, oldestId) THEN <<"Series ", Str(oldestId)>>
          ELSE LET oldestAnime == AnimeOf(data, oldestId)
               IN IF oldestAnime.title_romaji # NoTitle
                  THEN oldestAnime.title_romaji
                  ELSE IF oldestAnime.title # NoTitle THEN oldestAnime.title
                  ELSE <<"Series ", Str(oldestId)>>

----------------------------------------------------------------------------
(* processSeriesData *)

\* first pass: the structural graph and the five relation Maps
RECURSIVE FirstPass(_, _)
FirstPass(relations, acc) ==
  IF relations = <<>> THEN acc
  ELSE LET r == Head(relations)
           src == r.sourceAnimeId
           tgt == r.targetAnimeId
           ty == r.relationType
           acc1 ==
             IF ty = "CHARACTER"
             THEN [acc EXCEPT !.character = AddRelation(@, src, tgt)]
             ELSE IF ty = "ADAPTATION"
             THEN [acc EXCEPT !.adaptation = AddRelation(@, src, tgt)]
             ELSE IF ty = "SPIN_OFF"
             THEN [acc EXCEPT !.spinOff = AddRelation(@, src, tgt)]
             ELSE IF ty = "OTHER" \/ ty = "PARENT"
             THEN [acc EXCEPT
                     !.other = AddRelation(@, src, tgt),
                     !.parent = IF ty = "PARENT"
                                THEN AddRelation(@, src, tgt) ELSE @]
             ELSE [acc EXCEPT !.graph = AddEdge(@, src, tgt)]
       IN FirstPass(Tail(relations), acc1)

RelationMaps(s) ==
  FirstPass(s.relations,
            [graph |-> NewGraph, character |-> NewRelationMap,
             adaptation |-> NewRelationMap, spinOff |-> NewRelationMap,
             other |-> NewRelationMap, parent |-> NewRelationMap])

\* the scan of one main group: for (animeId of group) series.relations.forEach
RECURSIVE ScanMain(_, _, _)
ScanMain(pairs, groupSet, acc) ==
  IF pairs = <<>> THEN acc
  ELSE LET animeId == Head(pairs)[1]
           r == Head(pairs)[2]
           otherId == IF r.sourceAnimeId = animeId
                      THEN r.targetAnimeId ELSE r.sourceAnimeId
           outside == otherId \notin groupSet
           acc1 ==
             IF r.sourceAnimeId # animeId /\ r.targetAnimeId # animeId THEN acc
             ELSE IF r.relationType = "CHARACTER"
             THEN [acc EXCEPT !.characterIds =
                     IF outside THEN SetAdd(@, otherId) ELSE @]
             ELSE IF r.relationType = "ADAPTATION"
             THEN [acc EXCEPT !.adaptationIds =
                     IF outside THEN SetAdd(@, otherId) ELSE @]
             ELSE IF r.relationType = "SPIN_OFF"
             THEN [acc EXCEPT !.spinOffIds =
                     IF outside THEN SetAdd(@, otherId) ELSE @]
             ELSE IF r.sourceAnimeId \in groupSet /\ r.targetAnimeId \in groupSet
             THEN [acc EXCEPT !.uniqueRelations = SetAdd(@, r)]
             ELSE [acc EXCEPT !.otherIds = SetAdd(@, otherId)]
       IN ScanMain(Tail(pairs), groupSet, acc1)

RECURSIVE RelationsFrom(_, _)
RelationsFrom(relations, id) ==
  IF relations = <<>> THEN <<>>
  ELSE IF Head(relations).sourceAnimeId = id
       THEN <<Head(relations)>> \o RelationsFrom(Tail(relations), id)
       ELSE RelationsFrom(Tail(relations), id)

\* as MainScan, but a member is only scanned as the source of a relation
MainScanSourcesOnly(s, group) ==
  ScanMain(Concat([k \in 1..Len(group) |->
                     [j \in 1..Len(RelationsFrom(s.relations, group[k])) |->
                        <<group[k], RelationsFrom(s.relations, group[k])[j]>>]]),
           Range(group),
           [otherIds |-> <<>>, characterIds |-> <<>>, adaptationIds |-> <<>>,
            spinOffIds |-> <<>>, uniqueRelations |-> <<>>])

MainScan(s, group) ==
  ScanMain(Concat([k \in 1..Len(group) |->
                     [j \in 1..Len(s.relations) |->
                        <<group[k], s.relations[j]>>]]),
           Range(group),
           [otherIds |-> <<>>, characterIds |-> <<>>, adaptationIds |-> <<>>,
            spinOffIds |-> <<>>, uniqueRelations |-> <<>>])

MainCluster(s, group, index, data) ==
  LET scan == MainScan(s, group)
  IN [seriesId |-> <<"series", "_">> \o s.seriesId \o <<"_", Str(index)>>,
      seriesName |-> GetSeriesNameFromOldestAnime(group, data),
      originalSeriesId |-> s.seriesId,
      animeIds |-> SortNumeric(group),
      otherIds |-> SortNumeric(scan.otherIds),
      characterIds |-> SortNumeric(scan.characterIds),
      adaptationIds |-> SortNumeric(scan.adaptationIds),
      spinOffIds |-> SortNumeric(scan.spinOffIds),
      relations |-> SortRelations(scan.uniqueRelations)]

MainClusters(s, data) ==
  LET connectedGroups == FindConnectedGroups(RelationMaps(s).graph)
  IN [k \in 1..Len(connectedGroups) |->
        MainCluster(s, connectedGroups[k], k, data)]

\* as MainAnimeIds, but reads the otherIds of the main clusters
MainOtherIds(main) == UNION {Range(main[k].otherIds) : k \in 1..Len(main)}

\* new Set(results.main.flatMap((mainSeries) => mainSeries.animeIds))
MainAnimeIds(main) == UNION {Range(main[k].animeIds) : k \in 1..Len(main)}

\* relationType.toLowerCase(), as the tokens of the key
ResultKey(relationType) ==
  CASE relationType = "CHARACTER" -> "character"
    [] relationType = "ADAPTATION" -> "adaptation"
    [] relationType = "SPIN_OFF" -> "spin_off"
    [] relationType = "OTHER" -> "other"
    [] relationType = "PARENT" -> "parent"

ClusterIdPrefix(relationType) ==
  IF relationType = "SPIN_OFF" THEN <<"spin", "_", "off", "_">>
  ELSE <<ResultKey(relationType), "_">>

\* relationType.charAt(0) + relationType.slice(1).toLowerCase(), in parentheses
NameSuffix(relationType) ==
  CASE relationType = "CHARACTER" -> " (Character)"
    [] relationType = "ADAPTATION" -> " (Adaptation)"
    [] relationType = "SPIN_OFF" -> " (Spin_off)"
    [] relationType = "OTHER" -> " (Other)"
    [] relationType = "PARENT" -> " (Parent)"

\* the relations of one type with both ends in the filtered group, unique
RECURSIVE GroupRelations(_, _, _, _)
GroupRelations(relations, relationType, members, acc) ==
  IF relations = <<>> THEN acc
  ELSE LET r == Head(relations)
       IN GroupRelations(Tail(relations), relationType, members,
            IF /\ r.relationType = relationType
               /\ r.sourceAnimeId \in members
               /\ r.targetAnimeId \in members
            THEN SetAdd(acc, r) ELSE acc)

\* as SoftCluster, but only an empty filtered group is skipped
SoftClusterKeepsSingle(s, group, index, relationType, mainAnimeIds, data) ==
  LET filteredGroup == Filter(group, TargetIds \ mainAnimeIds)
  IN IF Len(filteredGroup) < 1 THEN <<>>
     ELSE <<[seriesId |-> ClusterIdPrefix(relationType) \o s.seriesId
                            \o <<"_", Str(index)>>,
             seriesName |-> GetSeriesNameFromOldestAnime(filteredGroup, data)
                              \o <<NameSuffix(relationType)>>,
             originalSeriesId |-> s.seriesId,
             animeIds |-> SortNumeric(filteredGroup),
             seriesType |-> relationType,
             relations |-> SortRelations(
               GroupRelations(s.relations, relationType,
                              Range(filteredGroup), <<>>))]>>

\* one iteration of groups.forEach: no cluster, or the cluster pushed
SoftCluster(s, group, index, relationType, mainAnimeIds, data) ==
  LET filteredGroup == Filter(group, TargetIds \ mainAnimeIds)
  IN IF Len(filteredGroup) < 2 THEN <<>>
     ELSE <<[seriesId |-> ClusterIdPrefix(relationType) \o s.seriesId
                            \o <<"_", Str(index)>>,
             seriesName |-> GetSeriesNameFromOldestAnime(filteredGroup, data)
                              \o <<NameSuffix(relationType)>>,
             originalSeriesId |-> s.seriesId,
             animeIds |-> SortNumeric(filteredGroup),
             seriesType |-> relationType,
             relations |-> SortRelations(
               GroupRelations(s.relations, relationType,
                              Range(filteredGroup), <<>>))]>>

SoftClusters(s, groups, relationType, mainAnimeIds, data) ==
  Concat([k \in 1..Len(groups) |->
            SoftCluster(s, groups[k], k, relationType, mainAnimeIds, data)])

\* processRelationGroups: pushes to results[relationType.toLowerCase()]
ProcessRelationGroups(groups, relationType, s, res, data) ==
  [res EXCEPT ![ResultKey(relationType)] =
     @ \o SoftClusters(s, groups, relationType, MainAnimeIds(res.main), data)]

ProcessSeriesData(s, data) ==
  LET maps == RelationMaps(s)
      r0 == [main |-> MainClusters(s, data), character |-> <<>>,
             adaptation |-> <<>>, spinOff |-> <<>>, other |-> <<>>,
             parent |-> <<>>, spin_off |-> <<>>]
      r1 == [r0 EXCEPT !.character =
               SoftClusters(s, FindConnectedGroupsFromRelations(maps.character),
                            "CHARACTER", MainAnimeIds(r0.main), data)]
      r2 == ProcessRelationGroups(
              FindConnectedGroupsFromRelations(maps.adaptation),
              "ADAPTATION", s, r1, data)
      r3 == ProcessRelationGroups(
              FindConnectedGroupsFromRelations(maps.spinOff),
              "SPIN_OFF", s, r2, data)
      r4 == ProcessRelationGroups(
              FindConnectedGroupsFromRelations(maps.other),
              "OTHER", s, r3, data)
  IN ProcessRelationGroups(
       FindConnectedGroupsFromRelations(maps.parent), "PARENT", s, r4, data)

----------------------------------------------------------------------------
(* groupAnimeIntoSeries_internal: one iteration of the main loop           *)
(* (animeData.forEach), as a function of the state g of the call:          *)
(* [animeData, series, processedIds, seriesIds, animeToSeries, edgeCases,  *)
(*  last].  Each way the iteration can end is one operator.                *)

NoEdgeCases ==
  [animeInMultipleSeries |-> <<>>, orphanedAnime |-> <<>>,
   circularRelations |-> <<>>]

NewGrouping(data) ==
  [animeData |-> data, series |-> <<>>, processedIds |-> {},
   seriesIds |-> {}, animeToSeries |-> {}, edgeCases |-> NoEdgeCases,
   last |-> [op |-> "start", animeId |-> 0, relatedIds |-> <<>>]]

\* which return the iteration for animeData[k] takes
Branch(g, k) ==
  LET anime == g.animeData[k]
  IN IF anime.id \in g.processedIds THEN "skip"
     ELSE IF Len(anime.relations) = 0 THEN "noRelations"
     ELSE LET relatedIds == RelatedIds(anime, g.animeData)
          IN IF Len(relatedIds) = 1 THEN "noReciprocal"
             ELSE IF Len(ConflictingAnime(relatedIds, g.animeToSeries)) > 0
                  THEN "veto"
                  ELSE "finalize"

\* if (processedIds.has(anime.id)) return;
Skip(g, k) ==
  [g EXCEPT !.last = [op |-> "skip", animeId |-> g.animeData[k].id,
                      relatedIds |-> <<>>]]

\* as Orphan, but the record is not marked processed
OrphanNotMarked(g, k, reason, relatedIds) ==
  [g EXCEPT
     !.edgeCases.orphanedAnime = Append(@, OrphanEntry(g.animeData[k], reason)),
     !.last = [op |-> "orphan", animeId |-> g.animeData[k].id,
               relatedIds |-> relatedIds]]

\* an orphanedAnime entry; only the record itself is marked processed
Orphan(g, k, reason, relatedIds) ==
  LET anime == g.animeData[k]
  IN [g EXCEPT
        !.edgeCases.orphanedAnime = Append(@, OrphanEntry(anime, reason)),
        !.processedIds = @ \cup {anime.id},
        !.last = [op |-> "orphan", animeId |-> anime.id,
                  relatedIds |-> relatedIds]]

\* as Veto, but the seed is entered in animeToSeries under the placeholder
VetoClaimsSeed(g, k) ==
  LET anime == g.animeData[k]
      relatedIds == RelatedIds(anime, g.animeData)
      conflictingAnime == ConflictingAnime(relatedIds, g.animeToSeries)
  IN [g EXCEPT
        !.edgeCases.animeInMultipleSeries =
           @ \o [j \in 1..Len(conflictingAnime) |->
                   MultipleSeriesEntry(conflictingAnime[j], g.animeData,
                                       g.animeToSeries)],
        !.animeToSeries = MapSet(@, anime.id, <<"proposed_new_series">>),
        !.processedIds = @ \cup Range(relatedIds),
        !.last = [op |-> "veto", animeId |-> anime.id,
                  relatedIds |-> relatedIds]]

\* conflictingAnime.length > 0: no series, one entry per conflicting id;
\* relatedIds is what the call of findAllRelatedIds on the seed returned
VetoWith(g, k, relatedIds) ==
  LET anime == g.animeData[k]
      conflictingAnime == ConflictingAnime(relatedIds, g.animeToSeries)
  IN [g EXCEPT
        !.edgeCases.animeInMultipleSeries =
           @ \o [j \in 1..Len(conflictingAnime) |->
                   MultipleSeriesEntry(conflictingAnime[j], g.animeData,
                                       g.animeToSeries)],
        !.processedIds = @ \cup Range(relatedIds),
        !.last = [op |-> "veto", animeId |-> anime.id,
                  relatedIds |-> relatedIds]]

Veto(g, k) == VetoWith(g, k, RelatedIds(g.animeData[k], g.animeData))

\* no conflict: the closure becomes a series group
FinalizeWith(g, k, relatedIds, now, rnd) ==
  LET anime == g.animeData[k]
      details == AnimeDetails(relatedIds, g.animeData)
      seriesId == GenerateSeriesId(details, g.seriesIds, now, rnd)
  IN [g EXCEPT
        !.seriesIds = @ \cup {seriesId},
        !.series = Append(@, SeriesGroup(relatedIds, details, seriesId,
                                         Len(g.series))),
        !.animeData = AttachSeriesId(@, details, seriesId),
        !.animeToSeries = SetAll(@, details, seriesId),
        !.processedIds = @ \cup Range(relatedIds),
        !.last = [op |-> "finalize", animeId |-> anime.id,
                  relatedIds |-> relatedIds]]

Finalize(g, k, now, rnd) ==
  FinalizeWith(g, k, RelatedIds(g.animeData[k], g.animeData), now, rnd)

ProcessAnime(g, k, now, rnd) ==
  LET b == Branch(g, k)
  IN CASE b = "skip" -> Skip(g, k)
       [] b = "noRelations" -> Orphan(g, k, "No relations found", <<>>)
       [] b = "noReciprocal" ->
            Orphan(g, k, "No reciprocal relations found",
                   RelatedIds(g.animeData[k], g.animeData))
       [] b = "veto" -> Veto(g, k)
       [] b = "finalize" -> Finalize(g, k, now, rnd)

\* the whole loop; clock[k] is what Date.now() and Math.random() return in
\* iteration k (read only for a seed without title)
RECURSIVE GroupFrom(_, _, _)
GroupFrom(g, k, clock) ==
  IF k > Len(g.animeData) THEN g
  ELSE GroupFrom(ProcessAnime(g, k, clock[k][1], clock[k][2]), k + 1, clock)

GroupAnimeIntoSeries(data, clock) == GroupFrom(NewGrouping(data), 1, clock)

\* the iterations whose seed has no title, with every clock they can read
Clocks(data) ==
  LET untitled == {k \in 1..Len(data) : data[k].title = NoTitle}
  IN {[k \in 1..Len(data) |-> IF k \in untitled THEN c[k] ELSE <<"t0", "r0">>] :
        c \in [untitled -> Clock \X Random]}

----------------------------------------------------------------------------
(* Input data sets: records 1..NumRecords in input order, every record     *)
(* with at most MaxRelPerRecord relations                                  *)

DefaultTitle == <<"A">>

Edges(types) == {Relation(t, ty) : t \in TargetIds, ty \in types}

RECURSIVE TotalLen(_, _)
TotalLen(lens, n) == IF n = 0 THEN 0 ELSE lens[n] + TotalLen(lens, n - 1)

\* n records; lens: record id -> number of relations; flat: all relations,
\* record by record
DataSet(n, lens, flat) ==
  [i \in 1..n |->
     Anime(i, DefaultTitle, NoTitle, NoDate,
           SubSeq(flat, TotalLen(lens, i - 1) + 1, TotalLen(lens, i)))]

\* the fields of the records that advancedSeriesSplit reads from animeMap
Loaded(data) == [i \in 1..Len(data) |-> [data[i] EXCEPT !.relations = <<>>]]

NoResults ==
  [main |-> <<>>, character |-> <<>>, adaptation |-> <<>>, spinOff |-> <<>>,
   other |-> <<>>, parent |-> <<>>, spin_off |-> <<>>]

NoOutput ==
  [main |-> <<>>, character |-> <<>>, adaptation |-> <<>>, spinOff |-> <<>>,
   other |-> <<>>, parent |-> <<>>]

\* the variables of the grouping call hold the state g
Holds(g) ==
  /\ animeData = g.animeData
  /\ series = g.series
  /\ processedIds = g.processedIds
  /\ seriesIds = g.seriesIds
  /\ animeToSeries = g.animeToSeries
  /\ edgeCases = g.edgeCases
  /\ last = g.last

Current ==
  [animeData |-> animeData, series |-> series, processedIds |-> processedIds,
   seriesIds |-> seriesIds, animeToSeries |-> animeToSeries,
   edgeCases |-> edgeCases, last |-> last]

Becomes(g) ==
  /\ animeData' = g.animeData
  /\ series' = g.series
  /\ processedIds' = g.processedIds
  /\ seriesIds' = g.seriesIds
  /\ animeToSeries' = g.animeToSeries
  /\ edgeCases' = g.edgeCases
  /\ last' = g.last

\* seriesMap of updateAnimeData: animeId.toString() -> seriesId, the entries
\* of series k..Len(seriesList) set over m (a later series overwrites)
RECURSIVE SeriesMapFrom(_, _, _)
SeriesMapFrom(seriesList, k, m) ==
  IF k > Len(seriesList) THEN m
  ELSE LET ids == seriesList[k].animeIds
           RECURSIVE SetIds(_, _)
           SetIds(j, acc) ==
             IF j > Len(ids) THEN acc
             ELSE SetIds(j + 1,
                         MapSet(acc, Str(ids[j]), seriesList[k].seriesId))
       IN SeriesMapFrom(seriesList, k + 1, SetIds(1, m))

\* the copy of record anime that updateAnimeData returns
UpdatedAnime(anime, seriesMap) ==
  IF MapHas(seriesMap, Str(anime.id))
       /\ MapGet(seriesMap, Str(anime.id)) # <<>>
  THEN [anime EXCEPT !.seriesId = MapGet(seriesMap, Str(anime.id))]
  ELSE anime

UpdateAnimeData(data, seriesList) ==
  [k \in 1..Len(data) |->
     UpdatedAnime(data[k], SeriesMapFrom(seriesList, 1, {}))]

\* the documents groupAnimeIntoSeries writes, in the order it writes them
GroupingDocuments ==
  <<"results/main_series.json", "results/edge_cases.json",
    "results/anime_data_updated.json", "db/series.json">>

SplitDocument == "db/advanced_split_series.json"

\* runPipeline before its first stage
NoPipeline ==
  [started |-> <<>>, ended |-> <<>>,
   result |-> [returned |-> FALSE, success |-> FALSE, error |-> "none"]]

\* the documents of a run: the series groups, the edge-case report and the
\* split output
NoRun == [series |-> <<>>, edgeCases |-> NoEdgeCases, split |-> NoOutput]

\* what the grouping call does not touch
SplitUnchanged ==
  UNCHANGED <<animeMap, sIdx, results, splitSeriesResults, inputFile,
              previousRun, pipeline, listedIds, seriesName,
              traversal>>

\* what the main loop does not touch
LoopUnchanged == SplitUnchanged /\ UNCHANGED updatedRecords

\* the grouping stage starts on a data set read from the results directory
Init ==
  \E lens \in [RecordIds -> 0..MaxRelPerRecord] :
    /\ TotalLen(lens, NumRecords) <= MaxEdges
    /\ \E flat \in [1..TotalLen(lens, NumRecords) -> Edges(GroupRelTypes)] :
         /\ Holds(NewGrouping(DataSet(NumRecords, lens, flat)))
         /\ inputFile = DataSet(NumRecords, lens, flat)
    /\ previousRun = NoRun
    /\ pipeline = NoPipeline
    /\ updatedRecords = <<>>
    /\ listedIds = <<>>
    /\ seriesName = <<>>
    /\ traversal = NoTraversal
    /\ disk = {}
    /\ pc = "group"
    /\ idx = 1
    /\ animeMap = <<>>
    /\ sIdx = 0
    /\ results = NoResults
    /\ splitSeriesResults = NoOutput

----------------------------------------------------------------------------
(* The grouping stage: one action per way an iteration of the main loop    *)
(* ends, then the documents are written                                    *)

InLoop == pc = "group" /\ idx <= Len(animeData)

SkipProcessed ==
  /\ InLoop
  /\ Branch(Current, idx) = "skip"
  /\ Becomes(Skip(Current, idx))
  /\ idx' = idx + 1
  /\ UNCHANGED <<pc, disk>>
  /\ LoopUnchanged

OrphanNoRelations ==
  /\ InLoop
  /\ Branch(Current, idx) = "noRelations"
  /\ Becomes(Orphan(Current, idx, "No relations found", <<>>))
  /\ idx' = idx + 1
  /\ UNCHANGED <<pc, disk>>
  /\ LoopUnchanged

OrphanNoReciprocal ==
  /\ InLoop
  /\ Branch(Current, idx) = "noReciprocal"
  /\ Becomes(Orphan(Current, idx, "No reciprocal relations found",
                    RelatedIds(animeData[idx], animeData)))
  /\ idx' = idx + 1
  /\ UNCHANGED <<pc, disk>>
  /\ LoopUnchanged

ConflictVeto ==
  /\ InLoop
  /\ Branch(Current, idx) = "veto"
  /\ Becomes(Veto(Current, idx))
  /\ idx' = idx + 1
  /\ UNCHANGED <<pc, disk>>
  /\ LoopUnchanged

FinalizeSeries ==
  /\ InLoop
  /\ Branch(Current, idx) = "finalize"
  /\ \E g \in {Finalize(Current, idx, now, rnd) :
                 now \in Clock, rnd \in Random} : Becomes(g)
  /\ idx' = idx + 1
  /\ UNCHANGED <<pc, disk>>
  /\ LoopUnchanged

\* after the loop: the series, edge-case and updated-record documents are
\* written and the series document is copied to db/series.json
WriteSeries ==
  /\ pc = "group"
  /\ idx > Len(animeData)
  /\ pc' = "grouped"
  /\ disk' = disk \cup Range(GroupingDocuments)
  /\ updatedRecords' = UpdateAnimeData(animeData, series)
  /\ UNCHANGED <<animeData, idx, series, processedIds, seriesIds,
                 animeToSeries, edgeCases, last>>
  /\ SplitUnchanged

Next ==
  \/ SkipProcessed
  \/ OrphanNoRelations
  \/ OrphanNoReciprocal
  \/ ConflictVeto
  \/ FinalizeSeries
  \/ WriteSeries

Spec == Init /\ [][Next]_vars

----------------------------------------------------------------------------
(* The grouping stage with findAllRelatedIds run call by call: the calls   *)
(* in progress are a stack of frames [animeId, next], next the position of *)
(* relations.forEach in that call.  The loop body waits for the call on    *)
(* the seed to return.  The code is synchronous, so a step that can be     *)
(* taken is taken (weak fairness of the whole next-state relation).        *)

StepRecords == 2
MaxStepEdges == 3

InitSteps ==
  \E lens \in [1..StepRecords -> 0..MaxRelPerRecord] :
    /\ TotalLen(lens, StepRecords) <= MaxStepEdges
    /\ \E flat \in [1..TotalLen(lens, StepRecords) -> Edges({StructuralType})] :
         /\ Holds(NewGrouping(DataSet(StepRecords, lens, flat)))
         /\ inputFile = DataSet(StepRecords, lens, flat)
    /\ previousRun = NoRun
    /\ pipeline = NoPipeline
    /\ updatedRecords = <<>>
    /\ listedIds = <<>>
    /\ seriesName = <<>>
    /\ traversal = NoTraversal
    /\ disk = {}
    /\ pc = "group"
    /\ idx = 1
    /\ animeMap = <<>>
    /\ sIdx = 0
    /\ results = NoResults
    /\ splitSeriesResults = NoOutput

\* the entry of one call: return at once on a visited id, add the id, return
\* when the id has no record, else start the relations.forEach of the call
EnterCall(animeId, data, t) ==
  IF Includes(t.processedIds, animeId) THEN t
  ELSE LET t1 == [t EXCEPT !.processedIds = Append(@, animeId)]
       IN IF ~HasAnime(data, animeId) THEN t1
          ELSE [t1 EXCEPT
                  !.callStack = Append(@, [animeId |-> animeId, next |-> 1])]

\* as Pop, but the frame of the call stays
KeepFrame(stack) == stack

\* the call on top returns
Pop(stack) == SubSeq(stack, 1, Len(stack) - 1)

TraversalUnchanged ==
  UNCHANGED <<animeData, pc, idx, series, processedIds, seriesIds,
              animeToSeries, edgeCases, last, animeMap, sIdx, results,
              splitSeriesResults, inputFile, previousRun, pipeline, disk,
              updatedRecords, listedIds, seriesName>>

\* findAllRelatedIds(anime.id, animeMap) of the main loop, with a new Set
BeginTraversal ==
  /\ InLoop
  /\ animeData[idx].id \notin processedIds
  /\ Len(animeData[idx].relations) > 0
  /\ traversal.seed # idx
  /\ traversal' = EnterCall(animeData[idx].id, animeData,
                            [NoTraversal EXCEPT !.seed = idx])
  /\ TraversalUnchanged

\* one iteration of relations.forEach in the call on top
VisitRelation ==
  /\ traversal.callStack # <<>>
  /\ LET call == traversal.callStack[Len(traversal.callStack)]
         relations == AnimeOf(animeData, call.animeId).relations
     IN /\ call.next <= Len(relations)
        /\ traversal' =
             EnterCall(relations[call.next].targetAnimeId, animeData,
                       [traversal EXCEPT
                          !.callStack[Len(traversal.callStack)].next = @ + 1])
  /\ TraversalUnchanged

\* return processedIds
ReturnCall ==
  /\ traversal.callStack # <<>>
  /\ LET call == traversal.callStack[Len(traversal.callStack)]
     IN call.next > Len(AnimeOf(animeData, call.animeId).relations)
  /\ traversal' = [traversal EXCEPT !.callStack = Pop(@)]
  /\ TraversalUnchanged

\* the call on the seed has returned
Traversed == traversal.seed = idx /\ traversal.callStack = <<>>

\* the rest of the iteration, on the Set the call returned
ReturnedOrphan ==
  /\ InLoop
  /\ Traversed
  /\ Len(traversal.processedIds) = 1
  /\ Becomes(Orphan(Current, idx, "No reciprocal relations found",
                    traversal.processedIds))
  /\ idx' = idx + 1
  /\ UNCHANGED <<pc, disk>>
  /\ LoopUnchanged

ReturnedVeto ==
  /\ InLoop
  /\ Traversed
  /\ Len(traversal.processedIds) > 1
  /\ Len(ConflictingAnime(traversal.processedIds, animeToSeries)) > 0
  /\ Becomes(VetoWith(Current, idx, traversal.processedIds))
  /\ idx' = idx + 1
  /\ UNCHANGED <<pc, disk>>
  /\ LoopUnchanged

ReturnedFinalize ==
  /\ InLoop
  /\ Traversed
  /\ Len(traversal.processedIds) > 1
  /\ Len(ConflictingAnime(traversal.processedIds, animeToSeries)) = 0
  /\ \E g \in {FinalizeWith(Current, idx, traversal.processedIds, now, rnd) :
                 now \in Clock, rnd \in Random} : Becomes(g)
  /\ idx' = idx + 1
  /\ UNCHANGED <<pc, disk>>
  /\ LoopUnchanged

NextSteps ==
  \/ SkipProcessed
  \/ OrphanNoRelations
  \/ BeginTraversal
  \/ VisitRelation
  \/ ReturnCall
  \/ ReturnedOrphan
  \/ ReturnedVeto
  \/ ReturnedFinalize
  \/ WriteSeries

\* the iteration on record idx can end: the seed needs no call, or the call
\* on it has returned; it ends by moving to the next record
EndIteration ==
  /\ InLoop
  /\ \/ animeData[idx].id \in processedIds
     \/ Len(animeData[idx].relations) = 0
     \/ Traversed
  /\ idx' = idx + 1

StepSpec ==
  /\ InitSteps
  /\ [][NextSteps]_vars
  /\ WF_vars(BeginTraversal \/ VisitRelation \/ ReturnCall)
  /\ WF_idx(EndIteration)
  /\ WF_vars(WriteSeries)

----------------------------------------------------------------------------
(* The split stage (advancedSeriesSplit): reads db/series.json, as the     *)
(* grouping stage wrote it, and the record file                            *)

GroupingUnchanged ==
  UNCHANGED <<animeData, idx, series, processedIds, seriesIds, animeToSeries,
              edgeCases, last, inputFile, previousRun, pipeline,
              updatedRecords, listedIds, seriesName,
              traversal>>

\* the stage starts from the documents of a grouping run over a data set
\* that may use every relation type
InitSplit ==
  \E lens \in [1..SplitRecords -> 0..MaxRelPerRecord] :
    /\ TotalLen(lens, SplitRecords) <= MaxSplitEdges
    /\ \E flat \in [1..TotalLen(lens, SplitRecords) -> Edges(SplitRelTypes)] :
         LET data == DataSet(SplitRecords, lens, flat)
         IN \E clock \in Clocks(data) :
              /\ Holds([NewGrouping(<<>>) EXCEPT !.series =
                          GroupAnimeIntoSeries(data, clock).series])
              /\ animeMap = Loaded(data)
              /\ inputFile = data
    /\ previousRun = NoRun
    /\ pipeline = NoPipeline
    /\ updatedRecords = <<>>
    /\ listedIds = <<>>
    /\ seriesName = <<>>
    /\ traversal = NoTraversal
    /\ disk = Range(GroupingDocuments)
    /\ pc = "split"
    /\ idx = 1
    /\ sIdx = 1
    /\ results = NoResults
    /\ splitSeriesResults = NoOutput

\* one iteration of the loop over seriesDb.series
SplitSeries ==
  /\ pc = "split"
  /\ sIdx <= Len(series)
  /\ results' = ProcessSeriesData(series[sIdx], animeMap)
  /\ splitSeriesResults' =
       [k \in DOMAIN splitSeriesResults |->
          splitSeriesResults[k] \o results'[k]]
  /\ sIdx' = sIdx + 1
  /\ UNCHANGED <<pc, animeMap, disk>>
  /\ GroupingUnchanged

\* the output document is written
WriteSplit ==
  /\ pc = "split"
  /\ sIdx > Len(series)
  /\ pc' = "done"
  /\ disk' = disk \cup {SplitDocument}
  /\ UNCHANGED <<animeMap, sIdx, results, splitSeriesResults>>
  /\ GroupingUnchanged

NextSplit ==
  \/ SplitSeries
  \/ WriteSplit

SplitSpec == InitSplit /\ [][NextSplit]_vars

----------------------------------------------------------------------------
(* Two runs of grouping followed by splitting over the same input file.    *)
(* A record has a title, or only a title_romaji.                           *)

\* the records of ids carry a title_romaji and no title
Untitled(data, ids) ==
  [k \in 1..Len(data) |->
     IF data[k].id \in ids
     THEN [data[k] EXCEPT !.title = NoTitle, !.title_romaji = DefaultTitle]
     ELSE data[k]]

\* the loop over seriesDb.series, from position k on
RECURSIVE SplitFrom(_, _, _, _)
SplitFrom(seriesList, k, map, out) ==
  IF k > Len(seriesList) THEN out
  ELSE LET res == ProcessSeriesData(seriesList[k], map)
       IN SplitFrom(seriesList, k + 1, map,
                    [key \in DOMAIN out |-> out[key] \o res[key]])

AdvancedSeriesSplit(seriesList, map) == SplitFrom(seriesList, 1, map, NoOutput)

RunOutputs ==
  [series |-> series, edgeCases |-> edgeCases, split |-> splitSeriesResults]

InitRerun ==
  \E lens \in [1..SplitRecords -> 0..MaxRelPerRecord] :
    /\ TotalLen(lens, SplitRecords) <= MaxRerunEdges
    /\ \E flat \in [1..TotalLen(lens, SplitRecords) -> Edges(GroupRelTypes)] :
         \E ids \in SUBSET (1..SplitRecords) :
           LET data == Untitled(DataSet(SplitRecords, lens, flat), ids)
           IN /\ Holds(NewGrouping(data))
              /\ inputFile = data
    /\ previousRun = NoRun
    /\ pipeline = NoPipeline
    /\ updatedRecords = <<>>
    /\ listedIds = <<>>
    /\ seriesName = <<>>
    /\ traversal = NoTraversal
    /\ disk = {}
    /\ pc = "start"
    /\ idx = 1
    /\ animeMap = <<>>
    /\ sIdx = 0
    /\ results = NoResults
    /\ splitSeriesResults = NoOutput

\* stages 2 and 3 of the pipeline: groupAnimeIntoSeries reads the input file
\* and writes its documents, advancedSeriesSplit reads them and writes its own
GroupAndSplit ==
  /\ pc \in {"start", "ran"}
  /\ \E g \in {GroupAnimeIntoSeries(inputFile, clock) :
                 clock \in Clocks(inputFile)} :
       /\ Becomes(g)
       /\ idx' = Len(inputFile) + 1
       /\ animeMap' = Loaded(inputFile)
       /\ sIdx' = Len(g.series) + 1
       /\ results' = IF g.series = <<>> THEN NoResults
                     ELSE ProcessSeriesData(g.series[Len(g.series)],
                                            Loaded(inputFile))
       /\ splitSeriesResults' =
            AdvancedSeriesSplit(g.series, Loaded(inputFile))
  /\ previousRun' = IF pc = "start" THEN NoRun ELSE RunOutputs
  /\ pc' = IF pc = "start" THEN "ran" ELSE "reran"
  /\ disk' = Range(GroupingDocuments) \cup {SplitDocument}
  /\ updatedRecords' = UpdateAnimeData(animeData', series')
  /\ UNCHANGED <<inputFile, pipeline, listedIds, seriesName,
              traversal>>

NextRerun == GroupAndSplit

RerunSpec == InitRerun /\ [][NextRerun]_vars

----------------------------------------------------------------------------
(* The grouping call on records as read: the relations field of a record   *)
(* is a native array, a string that parses to an array, a string that      *)
(* fails to parse (items: what the broken text was meant to hold), or      *)
(* absent.  The elements are objects with targetAnimeId and relationType.  *)

RawKinds == {"array", "json", "malformed", "absent"}

RawRelations(kind, items) == [kind |-> kind, items |-> items]

\* an id as a JSON value: a number or a string of digits
IdValue(rep, n) == [rep |-> rep, n |-> n]

\* id.toString()
IdToString(id) == IdValue("string", id.n)

\* anime.relations.map((rel) => ...): a bare id (an IdValue), an object with
\* node.id, an object with id and no targetAnimeId, or any other object
NormalizeRelation(rel) ==
  IF "rep" \in DOMAIN rel
  THEN [targetAnimeId |-> IdToString(rel), relationType |-> "UNKNOWN"]
  ELSE IF "node" \in DOMAIN rel /\ "id" \in DOMAIN rel.node
  THEN [targetAnimeId |-> IdToString(rel.node.id),
        relationType |-> IF "relationType" \in DOMAIN rel
                         THEN rel.relationType ELSE "UNKNOWN"]
  ELSE IF "id" \in DOMAIN rel /\ "targetAnimeId" \notin DOMAIN rel
  THEN [f \in DOMAIN rel \cup {"targetAnimeId", "relationType"} |->
          CASE f = "targetAnimeId" -> IdToString(rel.id)
            [] f = "relationType" ->
                 IF "relationType" \in DOMAIN rel THEN rel.relationType
                 ELSE IF "type" \in DOMAIN rel THEN rel.type
                 ELSE "UNKNOWN"
            [] OTHER -> rel[f]]
  ELSE rel

\* as NormalizeRelations, but the text that fails to parse is salvaged
NormalizeLenient(raw) ==
  IF raw.kind \in {"array", "json", "malformed"}
  THEN [j \in 1..Len(raw.items) |-> NormalizeRelation(raw.items[j])]
  ELSE <<>>

\* JSON.parse of a string (catch: []), then the map over an array, else []
NormalizeRelations(raw) ==
  LET parsed == CASE raw.kind = "json" -> RawRelations("array", raw.items)
                  [] raw.kind = "malformed" -> RawRelations("array", <<>>)
                  [] OTHER -> raw
  IN IF parsed.kind = "array"
     THEN [j \in 1..Len(parsed.items) |-> NormalizeRelation(parsed.items[j])]
     ELSE <<>>

\* the first animeData.forEach of the grouping call
NormalizeAll(data) ==
  [k \in 1..Len(data) |->
     [data[k] EXCEPT !.relations = NormalizeRelations(@)]]

\* records as read: kinds[i] is the shape of the relations field of record i
RawDataSet(n, lens, flat, kinds) ==
  [i \in 1..n |->
     [DataSet(n, lens, flat)[i] EXCEPT
        !.relations = RawRelations(kinds[i],
                                   IF kinds[i] = "absent" THEN <<>> ELSE @)]]

InitRaw ==
  \E lens \in [RecordIds -> 0..MaxRelPerRecord] :
    /\ TotalLen(lens, NumRecords) <= MaxRawEdges
    /\ \E flat \in [1..TotalLen(lens, NumRecords) -> Edges({StructuralType})] :
         \E kinds \in [RecordIds -> RawKinds] :
           /\ \A i \in RecordIds : kinds[i] = "absent" => lens[i] = 0
           /\ Holds(NewGrouping(RawDataSet(NumRecords, lens, flat, kinds)))
           /\ inputFile = RawDataSet(NumRecords, lens, flat, kinds)
    /\ previousRun = NoRun
    /\ pipeline = NoPipeline
    /\ updatedRecords = <<>>
    /\ listedIds = <<>>
    /\ seriesName = <<>>
    /\ traversal = NoTraversal
    /\ disk = {}
    /\ pc = "normalize"
    /\ idx = 1
    /\ animeMap = <<>>
    /\ sIdx = 0
    /\ results = NoResults
    /\ splitSeriesResults = NoOutput

\* the relations of every record are normalized before the main loop starts
Normalize ==
  /\ pc = "normalize"
  /\ animeData' = NormalizeAll(animeData)
  /\ pc' = "group"
  /\ UNCHANGED <<idx, series, processedIds, seriesIds, animeToSeries,
                 edgeCases, last, disk>>
  /\ LoopUnchanged

\* the elements a relations array may hold, all naming a record by an id
\* that is a number or a string
MaxShapes == 2
MaxShapeId == 2

IdValues == {IdValue(rep, n) : rep \in {"number", "string"}, n \in 1..MaxShapeId}

Shapes ==
  IdValues
    \cup {[targetAnimeId |-> id, relationType |-> StructuralType] :
            id \in IdValues}
    \cup {[id |-> id] : id \in IdValues}
    \cup {[id |-> id, relationType |-> StructuralType] : id \in IdValues}
    \cup {[id |-> id, type |-> StructuralType] : id \in IdValues}
    \cup {[node |-> [id |-> id]] : id \in IdValues}
    \cup {[node |-> [id |-> id], relationType |-> StructuralType] :
            id \in IdValues}

ShapedDataSet(items, kind) ==
  <<Anime(1, DefaultTitle, NoTitle, NoDate, RawRelations(kind, items))>>

InitShapes ==
  /\ \E n \in 0..MaxShapes :
       \E items \in [1..n -> Shapes] :
         \E kind \in {"array", "json"} :
           /\ Holds(NewGrouping(ShapedDataSet(items, kind)))
           /\ inputFile = ShapedDataSet(items, kind)
  /\ previousRun = NoRun
  /\ pipeline = NoPipeline
  /\ updatedRecords = <<>>
  /\ listedIds = <<>>
  /\ seriesName = <<>>
  /\ traversal = NoTraversal
  /\ disk = {}
  /\ pc = "normalize"
  /\ idx = 1
  /\ animeMap = <<>>
  /\ sIdx = 0
  /\ results = NoResults
  /\ splitSeriesResults = NoOutput

NextShapes == Normalize

ShapeSpec == InitShapes /\ [][NextShapes]_vars

NextRaw ==
  \/ Normalize
  \/ SkipProcessed
  \/ OrphanNoRelations
  \/ OrphanNoReciprocal
  \/ ConflictVeto
  \/ FinalizeSeries
  \/ WriteSeries

RawSpec == InitRaw /\ [][NextRaw]_vars

----------------------------------------------------------------------------
(* runPipeline: the three stages in sequence.  A stage returns an object   *)
(* with success; what the file system does to a stage is chosen freely.    *)

StageNames == <<"data-conversion", "series-grouping", "advanced-series-split">>

Succeeded == [success |-> TRUE, error |-> "none"]

Failed(error) == [success |-> FALSE, error |-> error]

\* what convertCsvToJson can return: success, no CSV file, no file
\* processed (no error field), an error caught
ConversionOutcomes ==
  {Succeeded, Failed("No CSV files found"), Failed("undefined"),
   Failed("conversion error")}

\* monitor.startStage
StartStage(p, stage) == [p EXCEPT !.started = Append(@, stage)]

\* as Continues, but the result of the stage is not looked at
ContinuesAlways(outcome) == TRUE

\* if (!result.success) { ... return } : the pipeline goes on
Continues(outcome) == outcome.success

\* monitor.endStage, and the return of runPipeline when the stage failed or
\* was the last one
EndStage(p, stage, outcome) ==
  [p EXCEPT
     !.ended = Append(@, [stage |-> stage, success |-> outcome.success,
                          error |-> outcome.error]),
     !.result =
        IF ~Continues(outcome)
        THEN [returned |-> TRUE, success |-> FALSE, error |-> outcome.error]
        ELSE IF stage = StageNames[3]
             THEN [returned |-> TRUE, success |-> TRUE, error |-> "none"]
             ELSE @]

\* where runPipeline goes after a stage
AfterStage(outcome, next) == IF Continues(outcome) THEN next ELSE "returned"

InitPipeline ==
  \E lens \in [1..SplitRecords -> 0..MaxRelPerRecord] :
    /\ TotalLen(lens, SplitRecords) <= MaxRerunEdges
    /\ \E flat \in [1..TotalLen(lens, SplitRecords) -> Edges(GroupRelTypes)] :
         /\ Holds(NewGrouping(DataSet(SplitRecords, lens, flat)))
         /\ inputFile = DataSet(SplitRecords, lens, flat)
    /\ previousRun = NoRun
    /\ pipeline = NoPipeline
    /\ updatedRecords = <<>>
    /\ listedIds = <<>>
    /\ seriesName = <<>>
    /\ traversal = NoTraversal
    /\ disk = {}
    /\ pc = "start"
    /\ idx = 1
    /\ animeMap = <<>>
    /\ sIdx = 0
    /\ results = NoResults
    /\ splitSeriesResults = NoOutput

PipelineFrame ==
  UNCHANGED <<animeMap, sIdx, results, splitSeriesResults, inputFile,
              previousRun, listedIds, seriesName,
              traversal>>

\* stage 1
DataConversion ==
  /\ pc = "start"
  /\ \E outcome \in ConversionOutcomes :
       /\ pipeline' = EndStage(StartStage(pipeline, StageNames[1]),
                               StageNames[1], outcome)
       /\ pc' = AfterStage(outcome, "grouping")
  /\ UNCHANGED <<animeData, idx, series, processedIds, seriesIds,
                 animeToSeries, edgeCases, last, disk, updatedRecords>>
  /\ PipelineFrame

\* stage 2, up to the first write: the record file is read and grouped;
\* a failed read is caught and returned as success: false
SeriesGrouping ==
  /\ pc = "grouping"
  /\ \/ /\ Becomes(GroupAnimeIntoSeries(inputFile, [k \in 1..Len(inputFile) |-> <<"t0", "r0">>]))
        /\ idx' = Len(inputFile) + 1
        /\ pipeline' = StartStage(pipeline, StageNames[2])
        /\ pc' = "write"
     \/ /\ pipeline' = EndStage(StartStage(pipeline, StageNames[2]),
                                StageNames[2], Failed("read error"))
        /\ pc' = AfterStage(Failed("read error"), "splitting")
        /\ UNCHANGED <<animeData, idx, series, processedIds, seriesIds,
                       animeToSeries, edgeCases, last>>
  /\ UNCHANGED <<disk, updatedRecords>>
  /\ PipelineFrame

\* the documents of stage 2 still to write
ToWrite == Filter(GroupingDocuments, Range(GroupingDocuments) \ disk)

\* stage 2, one writeFileSync or copyFileSync: it writes the document, or
\* throws and the stage returns success: false
WriteDocument ==
  /\ pc = "write"
  /\ \/ /\ disk' = disk \cup {ToWrite[1]}
        /\ updatedRecords' = IF ToWrite[1] = GroupingDocuments[3]
                             THEN UpdateAnimeData(animeData, series)
                             ELSE updatedRecords
        /\ IF Len(ToWrite) = 1
           THEN /\ pipeline' = EndStage(pipeline, StageNames[2], Succeeded)
                /\ pc' = AfterStage(Succeeded, "splitting")
           ELSE UNCHANGED <<pipeline, pc>>
     \/ /\ pipeline' = EndStage(pipeline, StageNames[2], Failed("write error"))
        /\ pc' = AfterStage(Failed("write error"), "splitting")
        /\ UNCHANGED <<disk, updatedRecords>>
  /\ UNCHANGED <<animeData, idx, series, processedIds, seriesIds,
                 animeToSeries, edgeCases, last>>
  /\ PipelineFrame

\* stage 3: the split runs over db/series.json and writes its document, or
\* fails on a file and returns success: false
AdvancedSplit ==
  /\ pc = "splitting"
  /\ \/ /\ animeMap' = Loaded(inputFile)
        /\ sIdx' = Len(series) + 1
        /\ results' = IF series = <<>> THEN NoResults
                      ELSE ProcessSeriesData(series[Len(series)],
                                             Loaded(inputFile))
        /\ splitSeriesResults' = AdvancedSeriesSplit(series, Loaded(inputFile))
        /\ disk' = disk \cup {SplitDocument}
        /\ pipeline' = EndStage(StartStage(pipeline, StageNames[3]),
                                StageNames[3], Succeeded)
        /\ pc' = AfterStage(Succeeded, "returned")
     \/ /\ pipeline' = EndStage(StartStage(pipeline, StageNames[3]),
                                StageNames[3], Failed("split error"))
        /\ pc' = AfterStage(Failed("split error"), "returned")
        /\ UNCHANGED <<animeMap, sIdx, results, splitSeriesResults, disk>>
  /\ UNCHANGED <<animeData, idx, series, processedIds, seriesIds,
                 animeToSeries, edgeCases, last, inputFile, previousRun,
                 updatedRecords, listedIds, seriesName,
              traversal>>

NextPipeline ==
  \/ DataConversion
  \/ SeriesGrouping
  \/ WriteDocument
  \/ AdvancedSplit

PipelineSpec == InitPipeline /\ [][NextPipeline]_vars

----------------------------------------------------------------------------
(* getSeriesNameFromOldestAnime on its own: a record map in which every    *)
(* record may have a start date (absent, unparsable, or one of MaxDate     *)
(* days), a title and a title_romaji, and a member list in some order.     *)
(* A member id may have no record.                                         *)

MaxMembers == 3
MaxDate == 3

MemberIds == 1..MaxMembers

Dates == {NoDate, InvalidDate} \cup {ValidDate(t) : t \in 1..MaxDate}

\* the titles of record i tell the records apart
TitleOf(i) == <<"T", Str(i)>>
RomajiOf(i) == <<"R", Str(i)>>

\* the lists without repetition over a set of ids
Listings(ids) ==
  {l \in UNION {[1..n -> ids] : n \in 1..MaxMembers} :
     \A i, j \in 1..Len(l) : i # j => l[i] # l[j]}

\* the record map: present[i] tells whether id i has a record
RecordMap(present, dates, titled, romaji) ==
  LET rec(i) == Anime(i, IF titled[i] THEN TitleOf(i) ELSE NoTitle,
                      IF romaji[i] THEN RomajiOf(i) ELSE NoTitle,
                      dates[i], <<>>)
      RECURSIVE build(_)
      build(i) == IF i > MaxMembers THEN <<>>
                  ELSE (IF present[i] THEN <<rec(i)>> ELSE <<>>) \o build(i + 1)
  IN build(1)

InitNaming ==
  /\ \E present \in [MemberIds -> BOOLEAN] :
       \E dates \in [MemberIds -> Dates] :
         \E titled \in [MemberIds -> BOOLEAN] :
           \E romaji \in [MemberIds -> BOOLEAN] :
             /\ \A i \in MemberIds :
                  ~present[i] => /\ dates[i] = NoDate
                                 /\ ~titled[i]
                                 /\ ~romaji[i]
             /\ animeMap = RecordMap(present, dates, titled, romaji)
  /\ listedIds \in Listings(MemberIds)
  /\ seriesName = <<>>
  /\ traversal = NoTraversal
  /\ pc = "name"
  /\ idx = 1
  /\ Holds(NewGrouping(<<>>))
  /\ inputFile = <<>>
  /\ previousRun = NoRun
  /\ pipeline = NoPipeline
  /\ updatedRecords = <<>>
  /\ disk = {}
  /\ sIdx = 0
  /\ results = NoResults
  /\ splitSeriesResults = NoOutput

\* const seriesName = getSeriesNameFromOldestAnime(group, animeMap)
NameSeries ==
  /\ pc = "name"
  /\ seriesName' = GetSeriesNameFromOldestAnime(listedIds, animeMap)
  /\ pc' = "named"
  /\ UNCHANGED <<listedIds, animeMap, sIdx, results, splitSeriesResults, disk,
                 animeData, idx, series, processedIds, seriesIds,
                 animeToSeries, edgeCases, last, inputFile, previousRun,
                 pipeline, updatedRecords, traversal>>

NextNaming == NameSeries

NamingSpec == InitNaming /\ [][NextNaming]_vars

----------------------------------------------------------------------------
(* Properties of the grouping stage (Spec)                                 *)

Grouped == pc = "grouped"

Members(k) == Range(series[k].animeIds)

SeedRecord == animeData[idx]

\* the animeInMultipleSeries entries the step appends
NewMultiEntries ==
  {edgeCases'.animeInMultipleSeries[n] :
     n \in (Len(edgeCases.animeInMultipleSeries) + 1)
             ..Len(edgeCases'.animeInMultipleSeries)}

\* C1: after the run, the animeIds of the finalized series groups are
\* pairwise disjoint (edge targets that are no input record included)
C1_GroupsDisjoint ==
  Grouped =>
    \A i, j \in 1..Len(series) : i # j => Members(i) \cap Members(j) = {}

Linked(data, a, b) ==
  \E k \in 1..Len(data) : \E j \in 1..Len(data[k].relations) :
    \/ data[k].id = a /\ data[k].relations[j].targetAnimeId = b
    \/ data[k].id = b /\ data[k].relations[j].targetAnimeId = a

RECURSIVE Component(_, _)
Component(data, ids) ==
  LET more == ids \cup {b \in TargetIds : \E a \in ids : Linked(data, a, b)}
  IN IF more = ids THEN ids ELSE Component(data, more)

\* every edge targets a record and has a reverse edge
Reciprocal(data) ==
  \A k \in 1..Len(data) : \A j \in 1..Len(data[k].relations) :
    LET t == data[k].relations[j].targetAnimeId
    IN /\ HasAnime(data, t)
       /\ \E i \in 1..Len(AnimeOf(data, t).relations) :
            AnimeOf(data, t).relations[i].targetAnimeId = data[k].id

Components(data) ==
  {c \in {Component(data, {data[k].id}) : k \in 1..Len(data)} :
     Cardinality(c) >= 2}

SeriesIdsOf(run) == [k \in 1..Len(run.series) |-> run.series[k].seriesId]

MembershipOf(run) ==
  [k \in 1..Len(run.series) |-> Range(run.series[k].animeIds)]

ClusterIdsOf(run) ==
  [key \in DOMAIN run.split |->
     [k \in 1..Len(run.split[key]) |-> run.split[key][k].seriesId]]

\* C6: a second run of grouping and splitting over the same record list
\* yields the series ids, the membership sets, the split cluster ids and the
\* edge-case report of the first run (every record has an id and a title or
\* a title_romaji)
C6_Idempotent ==
  pc = "reran" =>
    /\ SeriesIdsOf(RunOutputs) = SeriesIdsOf(previousRun)
    /\ MembershipOf(RunOutputs) = MembershipOf(previousRun)
    /\ ClusterIdsOf(RunOutputs) = ClusterIdsOf(previousRun)
    /\ edgeCases = previousRun.edgeCases

OnlySelfEdges(anime) ==
  /\ Len(anime.relations) > 0
  /\ \A j \in 1..Len(anime.relations) :
       anime.relations[j].targetAnimeId = anime.id

OrphanStep(reason) ==
  /\ series' = series
  /\ edgeCases' = [edgeCases EXCEPT !.orphanedAnime =
       Append(@, [animeId |-> SeedRecord.id, title |-> SeedRecord.title,
                  reason |-> reason])]
  /\ SeedRecord.id \in processedIds'

\* C8: an unvisited record with no edges yields one orphan entry "No
\* relations found", one whose edges reach only itself yields one orphan
\* entry "No reciprocal relations found"; no group is created and the record
\* is marked visited
C8_OrphanClassification ==
  [][(InLoop /\ SeedRecord.id \notin processedIds) =>
       /\ Len(SeedRecord.relations) = 0 => OrphanStep("No relations found")
       /\ OnlySelfEdges(SeedRecord) =>
            OrphanStep("No reciprocal relations found")
    ]_vars

\* C8 witness: both kinds of orphan have been reported
C8_Witness ==
  /\ \E n \in 1..Len(edgeCases.orphanedAnime) :
       edgeCases.orphanedAnime[n].reason = "No relations found"
  /\ \E n \in 1..Len(edgeCases.orphanedAnime) :
       /\ edgeCases.orphanedAnime[n].reason = "No reciprocal relations found"
       /\ edgeCases.orphanedAnime[n].animeId \in processedIds

----------------------------------------------------------------------------
(* Properties of the split stage (SplitSpec)                               *)

SoftKeys == {"character", "adaptation", "spinOff", "other", "parent", "spin_off"}

\* the clusters of the soft categories that processSeriesData returned
SoftClustersOf(res) == UNION {Range(res[k]) : k \in SoftKeys}

\* the series group the last processSeriesData call was given
Processed == sIdx > 1

ProcessedSeries == series[sIdx - 1]

\* C3: no id of a MAIN cluster of a group is in a cluster of a soft category
\* of that group
C3_SoftExclusive ==
  Processed =>
    \A m \in Range(results.main), c \in SoftClustersOf(results) :
      Range(m.animeIds) \cap Range(c.animeIds) = {}

\* C3 witness: a soft cluster was emitted next to a MAIN cluster, from a
\* component that a relation of its type links to a MAIN member
C3_Witness ==
  /\ Processed
  /\ \E m \in Range(results.main), c \in SoftClustersOf(results) :
       \E n \in 1..Len(ProcessedSeries.relations) :
         LET r == ProcessedSeries.relations[n]
         IN /\ r.relationType = c.seriesType
            /\ \/ r.sourceAnimeId \in Range(m.animeIds)
                  /\ r.targetAnimeId \in Range(c.animeIds)
               \/ r.targetAnimeId \in Range(m.animeIds)
                  /\ r.sourceAnimeId \in Range(c.animeIds)

\* C4: every cluster of a soft category has at least two members, none of
\* them claimed by a MAIN cluster
C4_NoSoftSingleton ==
  Processed =>
    \A c \in SoftClustersOf(results) :
      Cardinality(Range(c.animeIds) \ MainAnimeIds(results.main)) >= 2

\* C4 witness: a relation of a soft type links a MAIN member to an id
\* outside the MAIN clusters, and its component, a singleton once the MAIN
\* member is removed, got no cluster
C4_Witness ==
  /\ Processed
  /\ \E n \in 1..Len(ProcessedSeries.relations) :
       LET r == ProcessedSeries.relations[n]
           main == MainAnimeIds(results.main)
       IN /\ r.relationType \in {"CHARACTER", "ADAPTATION", "SPIN_OFF"}
          /\ r.sourceAnimeId \in main
          /\ r.targetAnimeId \notin main
          /\ \A c \in SoftClustersOf(results) :
               r.targetAnimeId \notin Range(c.animeIds)

\* C5: every series group and every split cluster, MAIN included, has at
\* least two distinct members
C5_NoSmallCluster ==
  /\ \A k \in 1..Len(series) : Cardinality(Members(k)) >= 2
  /\ \A c \in Range(results.main) \cup SoftClustersOf(results) :
       Cardinality(Range(c.animeIds)) >= 2

AllOfType(s, ty) ==
  /\ Len(s.relations) > 0
  /\ \A n \in 1..Len(s.relations) : s.relations[n].relationType = ty

\* C9: a group whose relations are all ADAPTATION yields no MAIN cluster,
\* one ADAPTATION cluster with all members of the group, and no cluster of
\* another category
C9_AdaptationOnly ==
  (Processed /\ AllOfType(ProcessedSeries, "ADAPTATION")) =>
    /\ results.main = <<>>
    /\ Len(results.adaptation) = 1
    /\ results.adaptation[1].seriesType = "ADAPTATION"
    /\ results.adaptation[1].animeIds = SortNumeric(ProcessedSeries.animeIds)
    /\ \A k \in SoftKeys \ {"adaptation"} : results[k] = <<>>

\* C9 witness: an ADAPTATION-only group of three members was processed
C9_Witness ==
  /\ Processed
  /\ AllOfType(ProcessedSeries, "ADAPTATION")
  /\ Len(ProcessedSeries.animeIds) = 3
  /\ Len(results.adaptation) = 1

\* the ids outside `inside` at the other end of a relation of one of the
\* types that touches a member of `inside`
OutsideEnds(s, inside, types) ==
  {o \in TargetIds \ inside :
     \E n \in 1..Len(s.relations) :
       /\ s.relations[n].relationType \in types
       /\ \/ s.relations[n].sourceAnimeId \in inside
             /\ s.relations[n].targetAnimeId = o
          \/ s.relations[n].targetAnimeId \in inside
             /\ s.relations[n].sourceAnimeId = o}

AllTypes == SplitRelTypes \cup GroupRelTypes

\* C10: the four id lists of a MAIN cluster are the outside ends of the
\* relations of their type that touch the cluster (otherIds: of every type
\* but CHARACTER, ADAPTATION, SPIN_OFF), and share no id with its animeIds
C10_MainReferences ==
  Processed =>
    \A m \in Range(results.main) :
      LET inside == Range(m.animeIds)
      IN /\ Range(m.characterIds) =
              OutsideEnds(ProcessedSeries, inside, {"CHARACTER"})
         /\ Range(m.adaptationIds) =
              OutsideEnds(ProcessedSeries, inside, {"ADAPTATION"})
         /\ Range(m.spinOffIds) =
              OutsideEnds(ProcessedSeries, inside, {"SPIN_OFF"})
         /\ Range(m.otherIds) =
              OutsideEnds(ProcessedSeries, inside,
                          AllTypes \ {"CHARACTER", "ADAPTATION", "SPIN_OFF"})
         /\ (Range(m.characterIds) \cup Range(m.adaptationIds)
               \cup Range(m.spinOffIds) \cup Range(m.otherIds))
              \cap inside = {}

\* C10 witness: a MAIN cluster of two members whose characterIds name a
\* third id that is the source of the CHARACTER relation, and no CHARACTER
\* cluster
C10_Witness ==
  /\ Processed
  /\ results.character = <<>>
  /\ \E m \in Range(results.main) :
       /\ Len(m.animeIds) = 2
       /\ Len(m.characterIds) = 1
       /\ \E n \in 1..Len(ProcessedSeries.relations) :
            /\ ProcessedSeries.relations[n].relationType = "CHARACTER"
            /\ ProcessedSeries.relations[n].sourceAnimeId = m.characterIds[1]

----------------------------------------------------------------------------
(* Further properties of the grouping stage                                *)

OrphanedIds ==
  {edgeCases.orphanedAnime[n].animeId : n \in 1..Len(edgeCases.orphanedAnime)}

MultipleSeriesIds ==
  {edgeCases.animeInMultipleSeries[n].animeId :
     n \in 1..Len(edgeCases.animeInMultipleSeries)}

GroupsOf(i) == {k \in 1..Len(series) : i \in Members(k)}

\* C11: after the run, every input record whose id is neither in
\* orphanedAnime nor in animeInMultipleSeries is a member of exactly one
\* series group
C11_MembershipCovers ==
  Grouped =>
    \A k \in 1..Len(animeData) :
      animeData[k].id \notin OrphanedIds \cup MultipleSeriesIds
        => Cardinality(GroupsOf(animeData[k].id)) = 1

Malformed(k) == inputFile[k].relations.kind = "malformed"

\* the input with the relations of the malformed records replaced by []
WithoutMalformed ==
  [k \in 1..Len(inputFile) |->
     IF Malformed(k)
     THEN [inputFile[k] EXCEPT !.relations = RawRelations("array", <<>>)]
     ELSE inputFile[k]]

NoClock == [k \in 1..NumRecords |-> <<"t0", "r0">>]

\* C12: a record whose relations string fails to parse gets an empty edge
\* list; when the loop reaches it unvisited it becomes an orphan "No
\* relations found"; the run ends with the groups and the report of a run in
\* which that record had no edges
C12_MalformedRecovery ==
  /\ pc # "normalize" =>
       \A k \in 1..Len(inputFile) :
         Malformed(k) => animeData[k].relations = <<>>
  /\ (/\ pc = "group"
      /\ idx <= Len(animeData)
      /\ Malformed(idx)
      /\ animeData[idx].id \notin processedIds)
       => Branch(Current, idx) = "noRelations"
  /\ Grouped =>
       LET g == GroupAnimeIntoSeries(NormalizeAll(WithoutMalformed), NoClock)
       IN series = g.series /\ edgeCases = g.edgeCases

\* C12 witness: the run is over, a record with a broken relations text of
\* one or more edges is an orphan, and another record is in a group
C12_Witness ==
  /\ Grouped
  /\ Len(series) > 0
  /\ \E k \in 1..Len(inputFile) :
       /\ Malformed(k)
       /\ Len(inputFile[k].relations.items) > 0
       /\ \E n \in 1..Len(edgeCases.orphanedAnime) :
            /\ edgeCases.orphanedAnime[n].animeId = inputFile[k].id
            /\ edgeCases.orphanedAnime[n].reason = "No relations found"

----------------------------------------------------------------------------
(* Properties of runPipeline (PipelineSpec)                                *)

Returned == pipeline.result.returned

\* C13: the stages start in the order data-conversion, series-grouping,
\* advanced-series-split, each at most once; after a stage that failed no
\* stage is started and the run returns success = false with the error of
\* that stage; the run returns success = true only after three stages that
\* succeeded
C13_StageOrder ==
  /\ \E n \in 0..3 : pipeline.started = SubSeq(StageNames, 1, n)
  /\ \A k \in 1..Len(pipeline.ended) :
       /\ pipeline.ended[k].stage = StageNames[k]
       /\ ~pipeline.ended[k].success =>
            /\ Len(pipeline.ended) = k
            /\ Len(pipeline.started) = k
            /\ pc = "returned"
            /\ Returned
            /\ ~pipeline.result.success
            /\ pipeline.result.error = pipeline.ended[k].error
  /\ (Returned /\ pipeline.result.success) =>
       /\ Len(pipeline.ended) = 3
       /\ \A k \in 1..3 : pipeline.ended[k].success

\* C13 witness: the run has returned the write error of the grouping stage
\* and the split stage was never started
C13_Witness ==
  /\ Returned
  /\ ~pipeline.result.success
  /\ pipeline.result.error = "write error"
  /\ pipeline.started = SubSeq(StageNames, 1, 2)

\* the grouping stage of this run has ended in a failure
GroupingFailed ==
  /\ Len(pipeline.ended) = 2
  /\ ~pipeline.ended[2].success

\* C14: when the grouping stage fails on a write of one of its documents,
\* none of the documents of that run is on disk
C14_NoPartialFlush ==
  (GroupingFailed /\ pipeline.ended[2].error = "write error") =>
    disk \cap Range(GroupingDocuments) = {}

----------------------------------------------------------------------------
(* Properties of the closure and of the veto (Spec)                        *)

\* the last iteration computed the closure of its seed
ClosureComputed == last.relatedIds # <<>>

\* C15: the closure of a seed holds every record connected to the seed by a
\* path of relation edges taken in either direction
C15_UndirectedClosure ==
  ClosureComputed =>
    \A k \in 1..Len(animeData) :
      animeData[k].id \in Component(animeData, {last.animeId})
        => animeData[k].id \in Range(last.relatedIds)

\* C16: over a run, no record id is in two animeInMultipleSeries entries
C16_OneConflictEntry ==
  \A n, m \in 1..Len(edgeCases.animeInMultipleSeries) :
    n # m => edgeCases.animeInMultipleSeries[n].animeId
               # edgeCases.animeInMultipleSeries[m].animeId

\* the step rejects a candidate closure: it reports a conflict
Rejects ==
  Len(edgeCases'.animeInMultipleSeries) > Len(edgeCases.animeInMultipleSeries)

\* C17: a step that rejects a closure leaves the series list with every
\* group in it, the anime-to-series mapping, the series ids in use and the
\* seriesId of every record as they were, and adds nothing to the other
\* edge-case lists
C17_VetoFrame ==
  [][Rejects =>
       /\ series' = series
       /\ animeToSeries' = animeToSeries
       /\ seriesIds' = seriesIds
       /\ animeData' = animeData
       /\ edgeCases'.orphanedAnime = edgeCases.orphanedAnime
       /\ edgeCases'.circularRelations = edgeCases.circularRelations
       /\ processedIds \subseteq processedIds'
    ]_vars

\* C17 witness: a closure of three ids was rejected while a group existed
C17_Witness ==
  /\ last.op = "veto"
  /\ Len(last.relatedIds) = 3
  /\ Len(series) > 0
  /\ edgeCases.animeInMultipleSeries # <<>>

\* the circular relations the traversal of the last seed came across
LastWarned ==
  FindAllRelatedIds(last.animeId, animeData, NewTraversal).warned

\* C18: when the traversal of a seed meets an edge whose target lies on the
\* path to the current node, the report has a circularRelations entry
C18_CircularReported ==
  (ClosureComputed /\ LastWarned # <<>>) =>
    edgeCases.circularRelations # <<>>

----------------------------------------------------------------------------
(* Properties of the series ids and of the updated records                 *)

\* C19: the seriesId values of the series groups of a run are pairwise
\* distinct, whether the seed has a title or not
C19_UniqueSeriesIds ==
  \A i, j \in 1..Len(series) :
    i # j => series[i].seriesId # series[j].seriesId

\* C20: in the updated records, a record carries the seriesId of a group
\* exactly when its id is in the animeIds of that group, and a record that
\* is orphaned or in no group carries no seriesId
C20_UpdatedRecords ==
  Grouped =>
    \A k \in 1..Len(updatedRecords) :
      /\ \A g \in 1..Len(series) :
           updatedRecords[k].seriesId = series[g].seriesId
             <=> updatedRecords[k].id \in Members(g)
      /\ (updatedRecords[k].id \in OrphanedIds
            \/ GroupsOf(updatedRecords[k].id) = {})
           => updatedRecords[k].seriesId = NoSeriesId

----------------------------------------------------------------------------
(* Further properties of the split stage (SplitSpec)                       *)

\* the relations of a series group that the first pass puts in the graph
Structural(s) ==
  {n \in 1..Len(s.relations) : s.relations[n].relationType \notin SoftTypes}

StructuralVertices(s) ==
  {s.relations[n].sourceAnimeId : n \in Structural(s)}
    \cup {s.relations[n].targetAnimeId : n \in Structural(s)}

RECURSIVE StructuralComponent(_, _)
StructuralComponent(s, ids) ==
  LET more == ids \cup
        {s.relations[n].targetAnimeId :
           n \in {n \in Structural(s) : s.relations[n].sourceAnimeId \in ids}}
        \cup
        {s.relations[n].sourceAnimeId :
           n \in {n \in Structural(s) : s.relations[n].targetAnimeId \in ids}}
  IN IF more = ids THEN ids ELSE StructuralComponent(s, more)

StructuralComponents(s) ==
  {StructuralComponent(s, {v}) : v \in StructuralVertices(s)}

\* C21: the MAIN clusters of a series group are the connected components of
\* the undirected graph of its relations of no soft type, one cluster per
\* component, pairwise disjoint
C21_MainComponents ==
  Processed =>
    /\ {Range(m.animeIds) : m \in Range(results.main)}
         = StructuralComponents(ProcessedSeries)
    /\ Len(results.main) = Cardinality(StructuralComponents(ProcessedSeries))
    /\ \A i, j \in 1..Len(results.main) :
         i # j => Range(results.main[i].animeIds)
                    \cap Range(results.main[j].animeIds) = {}

\* C21 witness: two MAIN clusters of two members each whose only bridge is a
\* relation of a soft type
C21_Witness ==
  /\ Processed
  /\ Len(results.main) = 2
  /\ Len(results.main[1].animeIds) = 2
  /\ Len(results.main[2].animeIds) = 2
  /\ \E n \in 1..Len(ProcessedSeries.relations) :
       /\ ProcessedSeries.relations[n].relationType \in SoftTypes
       /\ ProcessedSeries.relations[n].sourceAnimeId
            \in Range(results.main[1].animeIds)
       /\ ProcessedSeries.relations[n].targetAnimeId
            \in Range(results.main[2].animeIds)


\* C22: within one origin group and one soft category the emitted clusters
\* carry the indices 1..k without a gap, and no two of them share an id
C22_DenseIndices ==
  Processed =>
    \A key \in SoftKeys :
      /\ \A n \in 1..Len(results[key]) :
           results[key][n].seriesId[Len(results[key][n].seriesId)] = Str(n)
      /\ \A m, n \in 1..Len(results[key]) :
           m # n => results[key][m].seriesId # results[key][n].seriesId


\* what a component of one soft type keeps once the MAIN members are removed
KeptOf(group) ==
  Range(group) \ MainAnimeIds(results.main)

SpinOffComponents ==
  Range(FindConnectedGroupsFromRelations(RelationMaps(ProcessedSeries).spinOff))

\* C23: every SPIN_OFF component that keeps two members after the removal of
\* the MAIN members is a SPIN_OFF cluster of the spinOff list of the output
C23_SpinOffEmitted ==
  Processed =>
    \A group \in SpinOffComponents :
      Cardinality(KeptOf(group)) >= 2 =>
        \E c \in Range(splitSeriesResults.spinOff) :
          /\ c.seriesType = "SPIN_OFF"
          /\ c.originalSeriesId = ProcessedSeries.seriesId
          /\ Range(c.animeIds) = KeptOf(group)


OutputKeys == {"main", "character", "adaptation", "spinOff", "other", "parent"}

\* the clusters the split of one group emits, each named by its list and place
EmittedClusters ==
  {c \in OutputKeys \X (1..(2 * MaxSplitEdges)) : c[2] <= Len(results[c[1]])}

MembersOf(c) == Range(results[c[1]][c[2]].animeIds)

\* C26: the clusters of one group are a partition: no member id is in two
\* different emitted clusters, whatever their categories
C26_ClustersPartition ==
  Processed =>
    \A c, d \in EmittedClusters :
      c # d => MembersOf(c) \cap MembersOf(d) = {}


\* the relations of the type of a soft cluster with both ends in the cluster
InnerRelations(c) ==
  {n \in 1..Len(ProcessedSeries.relations) :
     /\ ProcessedSeries.relations[n].relationType = c.seriesType
     /\ ProcessedSeries.relations[n].sourceAnimeId \in Range(c.animeIds)
     /\ ProcessedSeries.relations[n].targetAnimeId \in Range(c.animeIds)}

RECURSIVE InnerComponent(_, _)
InnerComponent(c, ids) ==
  LET rel == ProcessedSeries.relations
      more == ids \cup
        {rel[n].targetAnimeId :
           n \in {n \in InnerRelations(c) : rel[n].sourceAnimeId \in ids}}
        \cup
        {rel[n].sourceAnimeId :
           n \in {n \in InnerRelations(c) : rel[n].targetAnimeId \in ids}}
  IN IF more = ids THEN ids ELSE InnerComponent(c, more)

\* C29: every emitted soft cluster is connected within itself by relations of
\* its category with both ends in the cluster, and lists at least one relation
C29_SoftClusterConnected ==
  Processed =>
    \A c \in SoftClustersOf(results) :
      /\ c.relations # <<>>
      /\ \A a \in Range(c.animeIds) :
           InnerComponent(c, {a}) = Range(c.animeIds)

----------------------------------------------------------------------------
(* Further properties of the grouping stage (Spec)                         *)

\* C28: no id of an orphanedAnime entry is a member of a finalized group
C28_OrphansUngrouped ==
  \A k \in 1..Len(series) : OrphanedIds \cap Members(k) = {}

----------------------------------------------------------------------------
(* Properties of getSeriesNameFromOldestAnime (NamingSpec)                 *)

Named == pc = "named"

ListedMembers == Range(listedIds)

DateOf(i) == AnimeOf(animeMap, i).start_date

\* every member has a record with a valid start date, no two the same
AllDated ==
  /\ \A i \in ListedMembers :
       HasAnime(animeMap, i) /\ DateOf(i).kind = "valid"
  /\ \A i, j \in ListedMembers : i # j => DateOf(i).t # DateOf(j).t

\* no member has a start date that can be used
NoneDated ==
  \A i \in ListedMembers :
    HasAnime(animeMap, i) => DateOf(i).kind # "valid"

Earliest ==
  CHOOSE i \in ListedMembers :
    \A j \in ListedMembers : DateOf(i).t <= DateOf(j).t

LowestId == CHOOSE i \in ListedMembers : \A j \in ListedMembers : i <= j

\* title_romaji, else title, else 'Series <id>'
ExpectedName(i) ==
  IF ~HasAnime(animeMap, i) THEN <<"Series ", Str(i)>>
  ELSE IF AnimeOf(animeMap, i).title_romaji # NoTitle
       THEN AnimeOf(animeMap, i).title_romaji
  ELSE IF AnimeOf(animeMap, i).title # NoTitle
       THEN AnimeOf(animeMap, i).title
  ELSE <<"Series ", Str(i)>>

\* C24: the name is taken from the member with the earliest start date when
\* every member has a valid start date of its own, and from the member with
\* the lowest id when no member has a usable date; it is the title_romaji of
\* that member, else its title, else 'Series <id>', also for a member that
\* has no record
C24_OldestNamesCluster ==
  Named =>
    /\ AllDated => seriesName = ExpectedName(Earliest)
    /\ NoneDated => seriesName = ExpectedName(LowestId)

\* C24 witness: three dated members, the earliest is listed last and has the
\* highest id, and the cluster carries its title_romaji
C24_Witness ==
  /\ Named
  /\ AllDated
  /\ Len(listedIds) = MaxMembers
  /\ Earliest = MaxMembers
  /\ listedIds[MaxMembers] = MaxMembers
  /\ seriesName = RomajiOf(MaxMembers)

\* C24 witness: no member has a usable date, the lowest id has no record
C24_WitnessUndated ==
  /\ Named
  /\ NoneDated
  /\ Len(listedIds) = MaxMembers
  /\ listedIds[1] # 1
  /\ ~HasAnime(animeMap, 1)
  /\ seriesName = <<"Series ", "1">>

Relistings == {l \in Listings(MemberIds) : Range(l) = ListedMembers}

\* C30: the comparator is a transitive strict order on every member set, and
\* the name does not depend on the order in which the member ids are listed
C30_OrderIndependent ==
  Named =>
    /\ \A a, b, c \in ListedMembers :
         /\ ~OlderThan(a, a, animeMap)
         /\ OlderThan(a, b, animeMap) /\ OlderThan(b, c, animeMap)
              => OlderThan(a, c, animeMap)
    /\ \A l \in Relistings :
         GetSeriesNameFromOldestAnime(l, animeMap) = seriesName

----------------------------------------------------------------------------
(* Properties of the relation normalization (ShapeSpec)                    *)

Normalized == pc = "group"

\* the id a raw element names
NamedId(rel) ==
  IF "rep" \in DOMAIN rel THEN rel
  ELSE IF "node" \in DOMAIN rel THEN rel.node.id
  ELSE IF "targetAnimeId" \in DOMAIN rel THEN rel.targetAnimeId
  ELSE rel.id

RawItems(k) == inputFile[k].relations.items

\* C25: the normalization gives every accepted element (a bare id, an object
\* with targetAnimeId, an object with id, an object with node.id) an edge
\* whose target id is a string, so that elements naming the same record have
\* the same target
C25_CanonicalTarget ==
  Normalized =>
    \A k \in 1..Len(animeData) :
      /\ Len(animeData[k].relations) = Len(RawItems(k))
      /\ \A j \in 1..Len(RawItems(k)) :
           animeData[k].relations[j].targetAnimeId
             = IdToString(NamedId(RawItems(k)[j]))
      /\ \A i, j \in 1..Len(RawItems(k)) :
           NamedId(RawItems(k)[i]).n = NamedId(RawItems(k)[j]).n
             => animeData[k].relations[i].targetAnimeId
                  = animeData[k].relations[j].targetAnimeId

----------------------------------------------------------------------------
(* Termination of the grouping stage (StepSpec)                            *)

\* no id is added to the Set of one traversal twice
NoRevisit ==
  \A i, j \in 1..Len(traversal.processedIds) :
    i # j => traversal.processedIds[i] # traversal.processedIds[j]

\* the Set a returned traversal holds is the closure the loop body uses
TraversalAgrees ==
  (InLoop /\ Traversed)
    => traversal.processedIds = RelatedIds(animeData[idx], animeData)

\* the loop moves to the next record only, and a record is a seed once
SeedOnce ==
  /\ idx' # idx => idx' = idx + 1
  /\ traversal'.seed # traversal.seed
       => traversal'.seed = idx /\ traversal.seed < idx

====
